---- MODULE Spec2Model ----
(***************************************************************************)
(* Signal generation and lifecycle engine of server.ts.                    *)
(*                                                                         *)
(* Numbers.  A price is an integer number of micro-units (1e-6 of the      *)
(* quote currency), which holds every string formatPrice can print (at     *)
(* most 6 decimals).  A product with a decimal literal (0.985, 1.012, ...) *)
(* is the exact value [int, frac]: int micro-units plus frac thousandths   *)
(* of a micro-unit.  Closes and volumes of a bar series are integers in    *)
(* ticks; tickSize micro-units per tick give the absolute price.  Ratios   *)
(* (RSI, price change, average volume) are exact fractions [num, den].     *)
(*                                                                         *)
(* Scheduling.  Node runs every callback to completion: the code between   *)
(* two awaits is one action, and at every await other callbacks may run.   *)
(***************************************************************************)
EXTENDS Integers, Sequences, FiniteSets, Bags, TLC

VARIABLES
    now,            \* the value Date.now() returns, epoch milliseconds
    signals,        \* botState.signals, most recently added first
    prices,         \* botState.prices, symbol -> last price seen (0: none)
    signalStatus,   \* botState.signalStatus, id -> status
    traderStats,    \* botState.traderStats, strategy name -> [wins, total]
    gen,            \* the running fetchLiveSignals calls
    chk,            \* the running checkPrices calls
    arg,            \* input of the function studied on its own (<<>>: none)
    res,            \* its output, as a one-element sequence (<<>>: not applied)
    credentials,    \* botState.telegramToken and telegramChatId are both set
    sending,        \* the sendToTelegram calls that await the Telegram API
    stateFile,      \* bot-state.json: <<>> when missing, else <<its content>>
    writable        \* fs.writeFileSync(STATE_FILE, ...) succeeds

vars == <<now, signals, prices, signalStatus, traderStats, gen, chk, arg, res,
          credentials, sending, stateFile, writable>>

\* the state store's part of the state
store == <<stateFile, writable>>

\* the notifier's part of the state
notifier == <<credentials, sending>>

----------------------------------------------------------------------------
(* Bounds of the model *)

MaxSignals == 2     \* signals held in the list or waiting in newSignals
MaxClock == 1       \* steps of one cooldown the clock may take
MaxCalls == 2       \* fetchLiveSignals and checkPrices calls in flight at once
MaxSends == 2       \* sendToTelegram calls in flight at once
MaxBars == 18       \* longest close series given to calculateRSI on its own
MaxCount == 2       \* largest counter in a stats map given to the global statistics

----------------------------------------------------------------------------
(* Program constants.  The key 'Michael van de Poppe' is written without *)
(* the diaeresis of the source. *)

RSI_PERIOD == 14
COOLDOWN_MS == 3600000
MICRO == 1000 * 1000     \* micro-units in one unit of the quote currency

ClockStep == COOLDOWN_MS * 1

isLive == TRUE

Symbols == {"BTCUSDT", "ETHUSDT"}

baseCoin(symbol) ==
    CASE symbol = "BTCUSDT" -> "BTC"
      [] symbol = "ETHUSDT" -> "ETH"

pairSymbol(pair) ==
    CHOOSE s \in Symbols : baseCoin(s) = pair.base /\ pair.quote = "USDT"

InitialTraderStats ==
    [n \in {"RSI Oversold (1h)", "Volume Breakout (1h)", "PlanB",
            "Michael van de Poppe", "Crypto Rover", "Ash Crypto",
            "Doctor Profit"} |->
        CASE n = "RSI Oversold (1h)" -> [wins |-> 0, total |-> 0]
          [] n = "Volume Breakout (1h)" -> [wins |-> 0, total |-> 0]
          [] n = "PlanB" -> [wins |-> 10, total |-> 12]
          [] n = "Michael van de Poppe" -> [wins |-> 8, total |-> 10]
          [] n = "Crypto Rover" -> [wins |-> 15, total |-> 20]
          [] n = "Ash Crypto" -> [wins |-> 9, total |-> 11]
          [] n = "Doctor Profit" -> [wins |-> 18, total |-> 20]]

----------------------------------------------------------------------------
(* Indicator calculator *)

\* Sum of the positive (pos = TRUE) or of the negated non-positive deltas
\* closes[i+1] - closes[i] for i in lo..hi.
RECURSIVE sumDeltas(_, _, _, _)
sumDeltas(closes, lo, hi, pos) ==
    IF lo > hi THEN 0
    ELSE LET change == closes[lo + 1] - closes[lo]
             part == IF pos THEN (IF change > 0 THEN change ELSE 0)
                     ELSE (IF change > 0 THEN 0 ELSE 0 - change)
         IN part + sumDeltas(closes, lo + 1, hi, pos)

\* Wilder smoothing.  avg is [gain, loss, den]: avgGain = gain / den and
\* avgLoss = loss / den; i is the index of the close the next delta ends at.
RECURSIVE smooth(_, _, _)
smooth(closes, i, avg) ==
    IF i > Len(closes) THEN avg
    ELSE LET change == closes[i] - closes[i - 1]
             gain == IF change > 0 THEN change ELSE 0
             loss == IF change < 0 THEN 0 - change ELSE 0
         IN smooth(closes, i + 1,
                   [gain |-> avg.gain * (RSI_PERIOD - 1) + gain * avg.den,
                    loss |-> avg.loss * (RSI_PERIOD - 1) + loss * avg.den,
                    den |-> avg.den * RSI_PERIOD])

\* variant: a series without any movement reads as neutral
calculateRSIFlatNeutral(closes) ==
    IF Len(closes) <= RSI_PERIOD THEN [num |-> 50, den |-> 1]
    ELSE LET avg == smooth(closes, RSI_PERIOD + 2,
                           [gain |-> sumDeltas(closes, 1, RSI_PERIOD, TRUE),
                            loss |-> sumDeltas(closes, 1, RSI_PERIOD, FALSE),
                            den |-> RSI_PERIOD])
         IN IF avg.loss = 0 /\ avg.gain = 0 THEN [num |-> 50, den |-> 1]
            ELSE IF avg.loss = 0 THEN [num |-> 100, den |-> 1]
            ELSE [num |-> 100 * (avg.gain + avg.loss) - 100 * avg.loss,
                  den |-> avg.gain + avg.loss]

calculateRSI(closes) ==
    IF Len(closes) <= RSI_PERIOD THEN [num |-> 50, den |-> 1]
    ELSE LET avg == smooth(closes, RSI_PERIOD + 2,
                           [gain |-> sumDeltas(closes, 1, RSI_PERIOD, TRUE),
                            loss |-> sumDeltas(closes, 1, RSI_PERIOD, FALSE),
                            den |-> RSI_PERIOD])
         IN IF avg.loss = 0 THEN [num |-> 100, den |-> 1]
            ELSE \* 100 - 100 / (1 + avgGain / avgLoss)
                 [num |-> 100 * (avg.gain + avg.loss) - 100 * avg.loss,
                  den |-> avg.gain + avg.loss]

RECURSIVE sumSeq(_, _)
sumSeq(s, n) == IF n = 0 THEN 0 ELSE s[n] + sumSeq(s, n - 1)

\* volumes.slice(0, -1).reduce(...) / (volumes.length - 1)
averageVolume(volumes) ==
    [num |-> sumSeq(volumes, Len(volumes) - 1), den |-> Len(volumes) - 1]

\* ((currentPrice - previousPrice) / previousPrice) * 100
priceChangePercent(closes) ==
    [num |-> (closes[Len(closes)] - closes[Len(closes) - 1]) * 100,
     den |-> closes[Len(closes) - 1]]

\* Comparisons of a fraction with positive denominator against an integer.
ratLess(r, k) == r.num < k * r.den
ratGreater(r, k) == r.num > k * r.den

\* currentVolume > avgVolume * 2.0
aboveTwice(currentVolume, avgVolume) ==
    currentVolume * avgVolume.den > avgVolume.num * 2

----------------------------------------------------------------------------
(* Strategy rules *)

\* variant: the momentum rule is tried before the breakout rule
selectStrategySurgeFirst(rsi, priceChange, currentVolume, avgVolume) ==
    LET volumeSpike == aboveTwice(currentVolume, avgVolume)
    IN IF ratLess(rsi, 35)
       THEN [strategyName |-> "RSI Oversold (1h)", action |-> "buy"]
       ELSE IF ratGreater(priceChange, 4) /\ aboveTwice(currentVolume, avgVolume)
       THEN [strategyName |-> "Momentum Surge (1h)", action |-> "buy"]
       ELSE IF volumeSpike /\ ratLess(rsi, 65) /\ ratGreater(priceChange, 2)
       THEN [strategyName |-> "Volume Breakout (1h)", action |-> "buy"]
       ELSE [strategyName |-> "", action |-> "buy"]

\* variant: the breakout rule asks for an RSI below 50
selectStrategyBreakoutBelow50(rsi, priceChange, currentVolume, avgVolume) ==
    LET volumeSpike == aboveTwice(currentVolume, avgVolume)
    IN IF ratLess(rsi, 35)
       THEN [strategyName |-> "RSI Oversold (1h)", action |-> "buy"]
       ELSE IF volumeSpike /\ ratLess(rsi, 50) /\ ratGreater(priceChange, 2)
       THEN [strategyName |-> "Volume Breakout (1h)", action |-> "buy"]
       ELSE IF ratGreater(priceChange, 4) /\ aboveTwice(currentVolume, avgVolume)
       THEN [strategyName |-> "Momentum Surge (1h)", action |-> "buy"]
       ELSE [strategyName |-> "", action |-> "buy"]

selectStrategy(rsi, priceChange, currentVolume, avgVolume) ==
    LET volumeSpike == aboveTwice(currentVolume, avgVolume)
    IN IF ratLess(rsi, 35)
       THEN [strategyName |-> "RSI Oversold (1h)", action |-> "buy"]
       ELSE IF volumeSpike /\ ratLess(rsi, 65) /\ ratGreater(priceChange, 2)
       THEN [strategyName |-> "Volume Breakout (1h)", action |-> "buy"]
       ELSE IF ratGreater(priceChange, 4) /\ aboveTwice(currentVolume, avgVolume)
       THEN [strategyName |-> "Momentum Surge (1h)", action |-> "buy"]
       ELSE [strategyName |-> "", action |-> "buy"]

----------------------------------------------------------------------------
(* Price levels and formatting *)

\* price * permille / 1000, exactly: int micro-units and frac/1000 of one.
scalePrice(price, permille) ==
    LET q == price \div 1000
        r == price % 1000
    IN [int |-> q * permille + (r * permille) \div 1000,
        frac |-> (r * permille) % 1000]

\* p.toFixed(decimals): the nearest multiple of step micro-units.
toFixed(p, decimals) ==
    LET step == CASE decimals = 6 -> 1 [] decimals = 4 -> 100 [] decimals = 2 -> 10000
        m == p.int % step
        up == 2 * (m * 1000 + p.frac) >= step * 1000
    IN [value |-> (p.int - m) + (IF up THEN step ELSE 0), decimals |-> decimals]

\* variant: the thresholds taken inclusively (p <= 0.01, p <= 1)
formatPriceInclusive(p) ==
    IF p.int < MICRO \div 100 \/ (p.int = MICRO \div 100 /\ p.frac = 0)
    THEN toFixed(p, 6)
    ELSE IF p.int < MICRO \/ (p.int = MICRO /\ p.frac = 0) THEN toFixed(p, 4)
    ELSE toFixed(p, 2)

formatPrice(p) ==
    IF p.int < MICRO \div 100 THEN toFixed(p, 6)
    ELSE IF p.int < MICRO THEN toFixed(p, 4)
    ELSE toFixed(p, 2)

\* parseFloat of a string formatPrice printed
parseFloat(str) == str.value

\* Math.round((wins / total) * 100), 0 when total is 0
successRateOf(stats) ==
    IF stats.total > 0
    THEN (200 * stats.wins + stats.total) \div (2 * stats.total)
    ELSE 0

----------------------------------------------------------------------------
(* Global statistics of the dashboard *)

\* Object.values(traderStats).reduce(...): the wins and totals added up
RECURSIVE globalStats(_)
globalStats(stats) ==
    IF DOMAIN stats = {} THEN [wins |-> 0, total |-> 0]
    ELSE LET n == CHOOSE x \in DOMAIN stats : TRUE
             acc == globalStats([x \in DOMAIN stats \ {n} |-> stats[x]])
         IN [wins |-> acc.wins + stats[n].wins,
             total |-> acc.total + stats[n].total]

\* variant: the percentage cut off instead of rounded
globalSuccessRateTruncated(g) ==
    IF g.total > 0 THEN (100 * g.wins) \div g.total ELSE 0

\* Math.round((wins / total) * 100), 0 without any total
globalSuccessRate(g) ==
    IF g.total > 0 THEN (200 * g.wins + g.total) \div (2 * g.total) ELSE 0

----------------------------------------------------------------------------
(* Inputs: what the market data source may answer *)

RECURSIVE barRun(_, _, _)
\* n closes starting at first, each differing from the one before by step
barRun(first, step, n) ==
    IF n = 0 THEN <<>> ELSE <<first>> \o barRun(first + step, step, n - 1)

flatVolumes(n, last) == [i \in 1..n |-> IF i = n THEN last ELSE 10]

\* 16 hourly bars falling to 100.00: RSI 0
KlinesOversold ==
    [closes |-> barRun(115, -1, 16), volumes |-> flatVolumes(16, 10),
     tickSize |-> MICRO]
\* 16 hourly bars falling to 0.000001: RSI 0
KlinesOversoldTiny ==
    [closes |-> barRun(16, -1, 16), volumes |-> flatVolumes(16, 10),
     tickSize |-> 1]
\* rising, then +4.95% to 106.00 on three times the average volume: RSI 100
KlinesSurge ==
    [closes |-> barRun(87, 1, 15) \o <<106>>, volumes |-> flatVolumes(16, 30),
     tickSize |-> MICRO]
\* three quiet bars: RSI 50, no rule matches
KlinesQuiet ==
    [closes |-> <<100, 100, 100>>, volumes |-> flatVolumes(3, 10),
     tickSize |-> MICRO]

KlinesFeed(symbol) ==
    IF symbol = "BTCUSDT"
    THEN {KlinesOversold, KlinesQuiet}
    ELSE {KlinesOversoldTiny, KlinesSurge}

\* the filtered candidate lists, ranked by quote volume, a ticker response
\* may yield
CandidateLists ==
    {<<>>, <<"BTCUSDT">>, <<"ETHUSDT">>, <<"BTCUSDT", "ETHUSDT">>,
     <<"ETHUSDT", "BTCUSDT">>}

\* prices a price response may carry for a symbol, in micro-units
PriceFeed(symbol) ==
    IF symbol = "BTCUSDT"
    THEN {1, 100 * MICRO, 101500000, 102500000, 104 * MICRO}
    ELSE {1}

----------------------------------------------------------------------------
(* Shared state access *)

statusOf(st, id) == IF id \in DOMAIN st THEN st[id] ELSE "active"

statsOf(ts, name) ==
    IF name \in DOMAIN ts THEN ts[name] ELSE [wins |-> 0, total |-> 0]

\* `${ticker.symbol}-${Date.now()}`, held as its '-'-separated parts
makeId(symbol, t) == <<symbol, t>>

\* parseInt(id.split('-')[1])
idTimestamp(id) == id[2]

\* botState.signals.find(s => s.pair.base === baseCoin): the index of the
\* first signal of the coin, 0 when there is none
findSignalFor(sigs, coin) ==
    IF \E i \in 1..Len(sigs) : sigs[i].pair.base = coin
    THEN CHOOSE i \in 1..Len(sigs) :
            /\ sigs[i].pair.base = coin
            /\ \A j \in 1..(i - 1) : sigs[j].pair.base # coin
    ELSE 0

RECURSIVE reverse(_)
reverse(s) == IF s = <<>> THEN <<>> ELSE reverse(Tail(s)) \o <<Head(s)>>

----------------------------------------------------------------------------
(* Signal generator: the body of the loop over usdtPairs for one ticker,  *)
(* after its klines have arrived.  The result is what is pushed to        *)
(* newSignals: one signal or nothing.                                      *)

hasOpenSignal(sigs, st, coin) ==
    \E i \in 1..Len(sigs) :
        /\ sigs[i].pair.base = coin
        /\ statusOf(st, sigs[i].id) \in {"active", "t1", "t2"}

isRecentSignal(sigs, coin, t) ==
    LET i == findSignalFor(sigs, coin)
    IN /\ i # 0
       /\ (t - idTimestamp(sigs[i].id)) < COOLDOWN_MS

AllKlines == UNION {KlinesFeed(y) : y \in Symbols}

\* the indicators and the strategy choice of a bar series
analysisOf ==
    [klines \in AllKlines |->
        LET closes == klines.closes
            volumes == klines.volumes
        IN [currentPrice |-> closes[Len(closes)] * klines.tickSize,
            choice |-> selectStrategy(calculateRSI(closes),
                                      priceChangePercent(closes),
                                      volumes[Len(volumes)],
                                      averageVolume(volumes))]]

\* the five stored prices of a signal emitted at currentPrice
priceLevels(currentPrice) ==
    [entry |-> formatPrice(scalePrice(currentPrice, 1000)),
     stopLoss |-> formatPrice(scalePrice(currentPrice, 985)),
     takeProfits |->
            [t1 |-> formatPrice(scalePrice(currentPrice, 1012)),
             t2 |-> formatPrice(scalePrice(currentPrice, 1020)),
             t3 |-> formatPrice(scalePrice(currentPrice, 1035))]]

levelsOf ==
    [klines \in AllKlines |-> priceLevels(analysisOf[klines].currentPrice)]

analyzeTicker(symbol, klines, sigs, st, stats, t) ==
    LET choice == analysisOf[klines].choice
        coin == baseCoin(symbol)
    IN IF choice.strategyName = "" THEN <<>>
       ELSE IF hasOpenSignal(sigs, st, coin) \/ isRecentSignal(sigs, coin, t)
       THEN <<>>
       ELSE << [id |-> makeId(symbol, t),
                traderName |-> choice.strategyName,
                successRate |-> successRateOf(statsOf(stats, choice.strategyName)),
                pair |-> [base |-> coin, quote |-> "USDT"],
                action |-> choice.action,
                entry |-> levelsOf[klines].entry,
                stopLoss |-> levelsOf[klines].stopLoss,
                takeProfits |-> levelsOf[klines].takeProfits] >>

\* newSignals.forEach: unshift each signal and set its status to active
RECURSIVE emitStatus(_, _)
emitStatus(newSignals, st) ==
    IF newSignals = <<>> THEN st
    ELSE LET id == Head(newSignals).id
         IN emitStatus(Tail(newSignals),
                       [k \in DOMAIN st \cup {id} |->
                            IF k = id THEN "active" ELSE st[k]])

emitSignals(newSignals, sigs) == reverse(newSignals) \o sigs

----------------------------------------------------------------------------
(* Lifecycle tracker: the body of botState.signals.forEach for one signal *)

\* variant: the first target is accepted from any status
nextStatusAnyToT1(signal, status, currentPrice) ==
    LET t1 == parseFloat(signal.takeProfits.t1)
        t2 == parseFloat(signal.takeProfits.t2)
        t3 == parseFloat(signal.takeProfits.t3)
        sl == parseFloat(signal.stopLoss)
    IN IF signal.action = "buy"
       THEN IF currentPrice <= sl THEN "sl"
            ELSE IF currentPrice >= t3 THEN "t3"
            ELSE IF currentPrice >= t2 /\ status # "t2" THEN "t2"
            ELSE IF currentPrice >= t1 THEN "t1"
            ELSE status
       ELSE status

\* variant: the third target is tested before the stop
nextStatusTargetFirst(signal, status, currentPrice) ==
    LET t1 == parseFloat(signal.takeProfits.t1)
        t2 == parseFloat(signal.takeProfits.t2)
        t3 == parseFloat(signal.takeProfits.t3)
        sl == parseFloat(signal.stopLoss)
    IN IF signal.action = "buy"
       THEN IF currentPrice >= t3 THEN "t3"
            ELSE IF currentPrice <= sl THEN "sl"
            ELSE IF currentPrice >= t2 /\ status # "t2" THEN "t2"
            ELSE IF currentPrice >= t1 /\ status = "active" THEN "t1"
            ELSE status
       ELSE status

\* variant: a signal climbs one level per check, whatever the price
nextStatusOneLevelPerCheck(signal, status, currentPrice) ==
    LET t1 == parseFloat(signal.takeProfits.t1)
        t2 == parseFloat(signal.takeProfits.t2)
        t3 == parseFloat(signal.takeProfits.t3)
        sl == parseFloat(signal.stopLoss)
    IN IF signal.action = "buy"
       THEN IF currentPrice <= sl THEN "sl"
            ELSE IF currentPrice >= t1 /\ status = "active" THEN "t1"
            ELSE IF currentPrice >= t2 /\ status = "t1" THEN "t2"
            ELSE IF currentPrice >= t3 THEN "t3"
            ELSE status
       ELSE status

nextStatus(signal, status, currentPrice) ==
    LET t1 == parseFloat(signal.takeProfits.t1)
        t2 == parseFloat(signal.takeProfits.t2)
        t3 == parseFloat(signal.takeProfits.t3)
        sl == parseFloat(signal.stopLoss)
    IN IF signal.action = "buy"
       THEN IF currentPrice <= sl THEN "sl"
            ELSE IF currentPrice >= t3 THEN "t3"
            ELSE IF currentPrice >= t2 /\ status # "t2" THEN "t2"
            ELSE IF currentPrice >= t1 /\ status = "active" THEN "t1"
            ELSE status
       ELSE status

\* variant: wins and total are swapped in the update
recordOutcomeSwapped(stats, name, newStatus) ==
    IF newStatus = "t1" \/ newStatus = "sl"
    THEN LET currentStats == statsOf(stats, name)
             isWin == newStatus = "t1"
         IN [n \in DOMAIN stats \cup {name} |->
                IF n = name
                THEN [wins |-> currentStats.wins + 1,
                      total |-> currentStats.total + (IF isWin THEN 1 ELSE 0)]
                ELSE stats[n]]
    ELSE stats

\* variant: a third target reached is counted as a win too
recordOutcomeT3Wins(stats, name, newStatus) ==
    IF newStatus = "t1" \/ newStatus = "t3" \/ newStatus = "sl"
    THEN LET currentStats == statsOf(stats, name)
             isWin == newStatus # "sl"
         IN [n \in DOMAIN stats \cup {name} |->
                IF n = name
                THEN [wins |-> currentStats.wins + (IF isWin THEN 1 ELSE 0),
                      total |-> currentStats.total + 1]
                ELSE stats[n]]
    ELSE stats

\* variant: a second target reached is counted as a win too
recordOutcomeT2Wins(stats, name, newStatus) ==
    IF newStatus = "t1" \/ newStatus = "t2" \/ newStatus = "sl"
    THEN LET currentStats == statsOf(stats, name)
             isWin == newStatus # "sl"
         IN [n \in DOMAIN stats \cup {name} |->
                IF n = name
                THEN [wins |-> currentStats.wins + (IF isWin THEN 1 ELSE 0),
                      total |-> currentStats.total + 1]
                ELSE stats[n]]
    ELSE stats

recordOutcome(stats, name, newStatus) ==
    IF newStatus = "t1" \/ newStatus = "sl"
    THEN LET currentStats == statsOf(stats, name)
             isWin == newStatus = "t1"
         IN [n \in DOMAIN stats \cup {name} |->
                IF n = name
                THEN [wins |-> currentStats.wins + (IF isWin THEN 1 ELSE 0),
                      total |-> currentStats.total + 1]
                ELSE stats[n]]
    ELSE stats

\* variant: the outcome is recorded without testing newStatus !== status
checkSignalAlwaysRecords(signal, prs, s) ==
    LET currentPrice == prs[pairSymbol(signal.pair)]
        status == statusOf(s.signalStatus, signal.id)
    IN IF currentPrice = 0 THEN s
       ELSE IF status = "t3" \/ status = "sl" THEN s
       ELSE LET newStatus == nextStatus(signal, status, currentPrice)
            IN [signalStatus |->
                    [k \in DOMAIN s.signalStatus \cup {signal.id} |->
                        IF k = signal.id THEN newStatus ELSE s.signalStatus[k]],
                traderStats |->
                    recordOutcome(s.traderStats, signal.traderName, newStatus)]

\* one signal against the price map; s is [signalStatus, traderStats]
checkSignal(signal, prs, s) ==
    LET currentPrice == prs[pairSymbol(signal.pair)]
        status == statusOf(s.signalStatus, signal.id)
    IN IF currentPrice = 0 THEN s
       ELSE IF status = "t3" \/ status = "sl" THEN s
       ELSE LET newStatus == nextStatus(signal, status, currentPrice)
            IN IF newStatus # status
               THEN [signalStatus |->
                        [k \in DOMAIN s.signalStatus \cup {signal.id} |->
                            IF k = signal.id THEN newStatus ELSE s.signalStatus[k]],
                     traderStats |->
                        recordOutcome(s.traderStats, signal.traderName, newStatus)]
               ELSE s

\* botState.signals.forEach(...) from index i on
RECURSIVE checkAll(_, _, _, _)
checkAll(sigs, i, prs, s) ==
    IF i > Len(sigs) THEN s
    ELSE checkAll(sigs, i + 1, prs, checkSignal(sigs[i], prs, s))

\* data.forEach(item => botState.prices[item.symbol] = parseFloat(item.price))
storePrices(prs, data) ==
    [y \in Symbols |-> IF y \in DOMAIN data THEN data[y] ELSE prs[y]]

\* the symbols of the request: one per distinct pair in the signal list
requestSymbols(sigs) == {pairSymbol(sigs[i].pair) : i \in 1..Len(sigs)}

----------------------------------------------------------------------------
(* The state machine.  gen and chk are bags: one element per call that is  *)
(* waiting at an await, holding the position and the locals of that call.  *)
(* A fetchLiveSignals call holds usdtPairs, the index i of the ticker whose *)
(* klines it awaits in the for-of loop, and newSignals.                     *)

\* how many iterations of the forEach from index i on change a status, each
\* of which calls sendToTelegram once
RECURSIVE countChanges(_, _, _, _)
countChanges(sigs, i, prs, s) ==
    IF i > Len(sigs) THEN 0
    ELSE LET after == checkSignal(sigs[i], prs, s)
         IN (IF after.signalStatus # s.signalStatus THEN 1 ELSE 0)
                + countChanges(sigs, i + 1, prs, after)

\* saveState() when the signal list is sigs and s is [signalStatus,
\* traderStats]: the new content of the file; a failed write is only logged
saveState(file, sigs, s) ==
    IF writable
    THEN <<[signals |-> sigs, signalStatus |-> s.signalStatus,
            traderStats |-> s.traderStats]>>
    ELSE file

\* variant: the forEach saves a status change before the counters are updated
RECURSIVE saveAllBeforeStats(_, _, _, _, _)
saveAllBeforeStats(sigs, i, prs, s, file) ==
    IF i > Len(sigs) THEN file
    ELSE LET after == checkSignal(sigs[i], prs, s)
         IN saveAllBeforeStats(sigs, i + 1, prs, after,
                IF after.signalStatus # s.signalStatus
                THEN saveState(file, sigs,
                               [signalStatus |-> after.signalStatus,
                                traderStats |-> s.traderStats])
                ELSE file)

\* the file after the forEach from index i on: every iteration that changes
\* a status ends with saveState()
RECURSIVE saveAll(_, _, _, _, _)
saveAll(sigs, i, prs, s, file) ==
    IF i > Len(sigs) THEN file
    ELSE LET after == checkSignal(sigs[i], prs, s)
         IN saveAll(sigs, i + 1, prs, after,
                IF after.signalStatus # s.signalStatus
                THEN saveState(file, sigs, after)
                ELSE file)

\* k calls of sendToTelegram: without credentials each returns at once, with
\* credentials each goes on to await the Telegram API
sendToTelegram(k) == IF credentials THEN sending + k ELSE sending

\* the bound on the calls in flight leaves room for k more
roomToSend(k) == credentials => sending + k <= MaxSends

Init ==
    /\ now = 0
    /\ signals = <<>>
    /\ prices = [y \in Symbols |-> 0]
    /\ signalStatus = <<>>
    /\ traderStats = InitialTraderStats
    /\ gen = EmptyBag
    /\ chk = EmptyBag
    /\ arg = <<>>
    /\ res = <<>>
    /\ credentials = FALSE
    /\ sending = 0
    /\ stateFile = <<>>
    /\ writable = TRUE

RECURSIVE sumPending(_)
sumPending(ticks) ==
    IF ticks = {} THEN 0
    ELSE LET t == CHOOSE x \in ticks : TRUE
         IN CopiesIn(t, gen) * Len(t.newSignals) + sumPending(ticks \ {t})

\* signals accepted by running generation ticks and not yet emitted
pendingCount == sumPending(BagToSet(gen))

\* the call at position t moves on to position u
moved(bag, t, u) == (bag (-) SetToBag({t})) (+) SetToBag({u})

\* the call at position t returns
returned(bag, t) == bag (-) SetToBag({t})

\* time passes
AdvanceClock ==
    /\ now < MaxClock * ClockStep
    /\ now' = now + ClockStep
    /\ UNCHANGED <<signals, prices, signalStatus, traderStats, gen, chk, arg, res, notifier, store>>

\* setInterval / setTimeout fire fetchLiveSignals: it runs up to its first await
GenStart ==
    /\ BagCardinality(gen) + BagCardinality(chk) < MaxCalls
    /\ isLive
    /\ gen' = gen (+) SetToBag({[pc |-> "ticker", usdtPairs |-> <<>>, i |-> 0,
                                 newSignals |-> <<>>]})
    /\ UNCHANGED <<now, signals, prices, signalStatus, traderStats, chk, arg, res, notifier, store>>

\* the 24hr ticker request fails or is not ok: the outer catch ends the tick
GenTickerFailed(t) ==
    /\ t.pc = "ticker"
    /\ gen' = returned(gen, t)
    /\ UNCHANGED <<now, signals, prices, signalStatus, traderStats, chk, arg, res, notifier, store>>

\* the ticker response arrives: filter, rank, and request the first klines;
\* with no candidate the loop and the emission have nothing to do
GenTickerArrived(t, usdtPairs) ==
    /\ t.pc = "ticker"
    /\ gen' = IF usdtPairs = <<>> THEN returned(gen, t)
              ELSE moved(gen, t, [pc |-> "klines", usdtPairs |-> usdtPairs,
                                  i |-> 1, newSignals |-> <<>>])
    /\ UNCHANGED <<now, signals, prices, signalStatus, traderStats, chk, arg, res, notifier, store>>

\* the rest of the loop body for the current ticker once pushed (<<>> or one
\* signal) is known, and, after the last ticker, the emission of newSignals
GenContinue(t, pushed) ==
    LET newSignals == t.newSignals \o pushed
    IN /\ Len(signals) + pendingCount + Len(pushed) <= MaxSignals
       /\ IF t.i < Len(t.usdtPairs)
          THEN /\ gen' = moved(gen, t, [pc |-> "klines", usdtPairs |-> t.usdtPairs,
                                        i |-> t.i + 1, newSignals |-> newSignals])
               /\ UNCHANGED <<signals, signalStatus, sending, stateFile>>
          ELSE /\ roomToSend(Len(newSignals))
               /\ signals' = emitSignals(newSignals, signals)
               /\ signalStatus' = emitStatus(newSignals, signalStatus)
               /\ sending' = sendToTelegram(Len(newSignals))
               /\ stateFile' =
                     IF Len(newSignals) > 0
                     THEN saveState(stateFile, emitSignals(newSignals, signals),
                                    [signalStatus |->
                                         emitStatus(newSignals, signalStatus),
                                     traderStats |-> traderStats])
                     ELSE stateFile
               /\ gen' = returned(gen, t)
       /\ UNCHANGED <<now, prices, traderStats, chk, arg, res, credentials,
                      writable>>

\* variant: a failed klines request ends the whole tick
GenKlinesFailedAborts(t) ==
    /\ t.pc = "klines"
    /\ gen' = returned(gen, t)
    /\ UNCHANGED <<now, signals, prices, signalStatus, traderStats, chk, arg, res, notifier, store>>

\* the klines request of the current ticker fails or is not ok
GenKlinesFailed(t) ==
    /\ t.pc = "klines"
    /\ GenContinue(t, <<>>)

\* the klines of the current ticker arrive
GenKlinesArrived(t, klines) ==
    /\ t.pc = "klines"
    /\ GenContinue(t, analyzeTicker(t.usdtPairs[t.i], klines, signals,
                                    signalStatus, traderStats, now))

\* variant: checkPrices waits until no fetchLiveSignals call is running
CheckStartAfterGeneration ==
    /\ BagCardinality(gen) + BagCardinality(chk) < MaxCalls
    /\ isLive /\ Len(signals) # 0
    /\ gen = EmptyBag
    /\ chk' = chk (+) SetToBag({[pc |-> "fetch",
                                 symbols |-> requestSymbols(signals)]})
    /\ UNCHANGED <<now, signals, prices, signalStatus, traderStats, gen, arg, res, notifier, store>>

\* setInterval fires checkPrices: it runs up to its await
CheckStart ==
    /\ BagCardinality(gen) + BagCardinality(chk) < MaxCalls
    /\ isLive /\ Len(signals) # 0
    /\ chk' = chk (+) SetToBag({[pc |-> "fetch",
                                 symbols |-> requestSymbols(signals)]})
    /\ UNCHANGED <<now, signals, prices, signalStatus, traderStats, gen, arg, res, notifier, store>>

\* the price request fails or is not ok
CheckFailed(t) ==
    /\ t.pc = "fetch"
    /\ chk' = returned(chk, t)
    /\ UNCHANGED <<now, signals, prices, signalStatus, traderStats, gen, arg, res, notifier, store>>

\* the price response arrives: store the prices, then check every signal
CheckArrived(t, data) ==
    /\ t.pc = "fetch"
    /\ LET prs == storePrices(prices, data)
           s == checkAll(signals, 1, prs,
                         [signalStatus |-> signalStatus,
                          traderStats |-> traderStats])
           sent == countChanges(signals, 1, prs,
                                [signalStatus |-> signalStatus,
                                 traderStats |-> traderStats])
       IN /\ roomToSend(sent)
          /\ prices' = prs
          /\ signalStatus' = s.signalStatus
          /\ traderStats' = s.traderStats
          /\ sending' = sendToTelegram(sent)
          /\ stateFile' = saveAll(signals, 1, prs,
                                  [signalStatus |-> signalStatus,
                                   traderStats |-> traderStats], stateFile)
    /\ chk' = returned(chk, t)
    /\ UNCHANGED <<now, signals, gen, arg, res, credentials, writable>>

\* the klines the source may answer to the request a generation tick awaits
KlinesAnswers(t) ==
    IF t.pc = "klines" THEN KlinesFeed(t.usdtPairs[t.i]) ELSE {}

\* the answers the source may give to a price request for symbols
PriceResponses(symbols) ==
    UNION {{d \in [S -> UNION {PriceFeed(y) : y \in S}] :
                \A y \in S : d[y] \in PriceFeed(y)} : S \in SUBSET symbols}

Next ==
    \/ AdvanceClock
    \/ GenStart
    \/ \E t \in BagToSet(gen) : GenTickerFailed(t)
    \/ \E t \in BagToSet(gen) : \E l \in CandidateLists : GenTickerArrived(t, l)
    \/ \E t \in BagToSet(gen) : GenKlinesFailed(t)
    \/ \E t \in BagToSet(gen) : \E k \in KlinesAnswers(t) : GenKlinesArrived(t, k)
    \/ CheckStart
    \/ \E t \in BagToSet(chk) : CheckFailed(t)
    \/ \E t \in BagToSet(chk) :
          \E d \in PriceResponses(t.symbols) : CheckArrived(t, d)

Spec == Init /\ [][Next]_vars

----------------------------------------------------------------------------
(* The engine with the notifier.  Spec starts without Telegram credentials, *)
(* so that sendToTelegram returns at once; here the credentials may be set, *)
(* and each call then awaits the Telegram API while the engine goes on.     *)

InitNotify ==
    /\ now = 0
    /\ signals = <<>>
    /\ prices = [y \in Symbols |-> 0]
    /\ signalStatus = <<>>
    /\ traderStats = InitialTraderStats
    /\ gen = EmptyBag
    /\ chk = EmptyBag
    /\ arg = <<>>
    /\ res = <<>>
    /\ credentials \in BOOLEAN
    /\ sending = 0
    /\ stateFile = <<>>
    /\ writable = TRUE

\* what ends a sendToTelegram call: the API accepts the message, the API
\* answers with an error, or the request throws
TelegramOutcomes == {"sent", "apiError", "threw"}

\* variant: a notification that did not go out takes the newest signal back
TelegramSettledRollsBack(outcome) ==
    /\ sending > 0
    /\ sending' = sending - 1
    /\ signals' = IF outcome # "sent" /\ signals # <<>> THEN Tail(signals)
                  ELSE signals
    /\ UNCHANGED <<now, prices, signalStatus, traderStats, gen, chk, arg, res,
                   credentials, store>>

\* a sendToTelegram call ends; every outcome is only logged
TelegramSettled(outcome) ==
    /\ sending > 0
    /\ sending' = sending - 1
    /\ UNCHANGED <<now, signals, prices, signalStatus, traderStats, gen, chk,
                   arg, res, credentials, store>>

NextNotify ==
    \/ Next
    \/ \E outcome \in TelegramOutcomes : TelegramSettled(outcome)

SpecNotify == InitNotify /\ [][NextNotify]_vars

----------------------------------------------------------------------------
(* The engine with a state store that may fail.  In Spec every write of the *)
(* state file succeeds; here the file may be unwritable when the engine     *)
(* starts and become writable at any time; a failed write leaves the file   *)
(* as it was.                                                               *)

InitStore ==
    /\ now = 0
    /\ signals = <<>>
    /\ prices = [y \in Symbols |-> 0]
    /\ signalStatus = <<>>
    /\ traderStats = InitialTraderStats
    /\ gen = EmptyBag
    /\ chk = EmptyBag
    /\ arg = <<>>
    /\ res = <<>>
    /\ credentials = FALSE
    /\ sending = 0
    /\ stateFile = <<>>
    /\ writable \in BOOLEAN

StoreRecovers ==
    /\ ~writable
    /\ writable' = TRUE
    /\ UNCHANGED <<now, signals, prices, signalStatus, traderStats, gen, chk,
                   arg, res, notifier, stateFile>>

NextStore ==
    \/ Next
    \/ StoreRecovers

SpecStore == InitStore /\ [][NextStore]_vars

----------------------------------------------------------------------------
(* The engine under its schedule: both timers keep firing and time passes.  *)
(* No answer of the data source is guaranteed, and no step of the code ends *)
(* a request that is not answered.                                          *)

SpecLive ==
    /\ Init /\ [][Next]_vars
    /\ WF_vars(GenStart) /\ WF_vars(CheckStart) /\ WF_vars(AdvanceClock)

----------------------------------------------------------------------------
(* Strategy selection studied on its own: arg holds the indicator readings *)
(* of one ticker, res the choice made from them.                           *)

SelectInputs ==
    [rsi : {[num |-> n, den |-> 100] :
                n \in {0, 3499, 3500, 5000, 6499, 6500, 10000}},
     priceChange : {[num |-> n, den |-> 100] : n \in {0 - 100, 200, 201, 400, 401}},
     currentVolume : {10, 20, 21, 30},
     avgVolume : {[num |-> 150, den |-> 15]}]

InitSelect ==
    /\ now = 0
    /\ signals = <<>>
    /\ prices = [y \in Symbols |-> 0]
    /\ signalStatus = <<>>
    /\ traderStats = InitialTraderStats
    /\ gen = EmptyBag
    /\ chk = EmptyBag
    /\ arg \in SelectInputs
    /\ res = <<>>
    /\ credentials = FALSE
    /\ sending = 0
    /\ stateFile = <<>>
    /\ writable = TRUE

ApplySelect ==
    /\ res = <<>>
    /\ res' = <<selectStrategy(arg.rsi, arg.priceChange, arg.currentVolume,
                               arg.avgVolume)>>
    /\ UNCHANGED <<now, signals, prices, signalStatus, traderStats, gen, chk, arg, notifier, store>>

NextSelect == ApplySelect

SpecSelect == InitSelect /\ [][NextSelect]_vars

----------------------------------------------------------------------------
(* Price levels studied on their own: arg holds the latest close of one    *)
(* ticker as a number of ticks of a tick size, res the levels stored.      *)

LevelInputs ==
    \* below 0.01 and around it, in micro-units
    [ticks : (1..30) \cup {123} \cup {9800 + 20 * k : k \in 0..20},
     tickSize : {1}]
    \cup \* below 1 and around it, in ticks of 0.0001
    [ticks : {100, 4560} \cup {9600 + 50 * k : k \in 0..14}, tickSize : {100}]
    \cup \* from 1 up, in ticks of 0.1
    [ticks : {10, 15, 1000, 1234}, tickSize : {100000}]

InitLevels ==
    /\ now = 0
    /\ signals = <<>>
    /\ prices = [y \in Symbols |-> 0]
    /\ signalStatus = <<>>
    /\ traderStats = InitialTraderStats
    /\ gen = EmptyBag
    /\ chk = EmptyBag
    /\ arg \in LevelInputs
    /\ res = <<>>
    /\ credentials = FALSE
    /\ sending = 0
    /\ stateFile = <<>>
    /\ writable = TRUE

ApplyLevels ==
    /\ res = <<>>
    /\ res' = <<priceLevels(arg.ticks * arg.tickSize)>>
    /\ UNCHANGED <<now, signals, prices, signalStatus, traderStats, gen, chk, arg, notifier, store>>

NextLevels == ApplyLevels

SpecLevels == InitLevels /\ [][NextLevels]_vars

----------------------------------------------------------------------------
(* The indicator calculator studied on its own: arg holds a series of      *)
(* closes, res the reading computed from it.                               *)

\* closes with d added to the k-th one
withBump(closes, k, d) ==
    [i \in 1..Len(closes) |-> IF i = k THEN closes[i] + d ELSE closes[i]]

RsiLengths ==
    {1, 2, RSI_PERIOD, RSI_PERIOD + 1} \cup ((RSI_PERIOD + 2)..MaxBars)

\* rising, flat and falling runs, with one close moved up or down
RsiInputs ==
    {withBump(barRun(100, step, n), k, d) :
        step \in {0 - 1, 0, 1}, n \in RsiLengths,
        k \in {1, 2, 8, RSI_PERIOD + 1, RSI_PERIOD + 2, MaxBars},
        d \in {0 - 3, 0, 3}}

InitRSI ==
    /\ now = 0
    /\ signals = <<>>
    /\ prices = [y \in Symbols |-> 0]
    /\ signalStatus = <<>>
    /\ traderStats = InitialTraderStats
    /\ gen = EmptyBag
    /\ chk = EmptyBag
    /\ arg \in RsiInputs
    /\ res = <<>>
    /\ credentials = FALSE
    /\ sending = 0
    /\ stateFile = <<>>
    /\ writable = TRUE

ApplyRSI ==
    /\ res = <<>>
    /\ res' = <<calculateRSI(arg)>>
    /\ UNCHANGED <<now, signals, prices, signalStatus, traderStats, gen, chk, arg, notifier, store>>

NextRSI == ApplyRSI

SpecRSI == InitRSI /\ [][NextRSI]_vars

----------------------------------------------------------------------------
(* The global statistics studied on their own: arg holds the stats map the *)
(* dashboard received, res the totals and the rate it shows.               *)

StrategyNames ==
    {"RSI Oversold (1h)", "Volume Breakout (1h)", "Momentum Surge (1h)"}

\* every map from some of the strategies to counters, the empty map included
StatsInputs ==
    UNION {[names -> [wins : 0..MaxCount, total : 0..MaxCount]] :
              names \in SUBSET StrategyNames}

InitStats ==
    /\ now = 0
    /\ signals = <<>>
    /\ prices = [y \in Symbols |-> 0]
    /\ signalStatus = <<>>
    /\ traderStats = InitialTraderStats
    /\ gen = EmptyBag
    /\ chk = EmptyBag
    /\ arg \in StatsInputs
    /\ res = <<>>
    /\ credentials = FALSE
    /\ sending = 0
    /\ stateFile = <<>>
    /\ writable = TRUE

ApplyStats ==
    /\ res = <<>>
    /\ res' = <<[globalStats |-> globalStats(arg),
                 globalSuccessRate |-> globalSuccessRate(globalStats(arg))]>>
    /\ UNCHANGED <<now, signals, prices, signalStatus, traderStats, gen, chk, arg, notifier, store>>

NextStats == ApplyStats

SpecStats == InitStats /\ [][NextStats]_vars

----------------------------------------------------------------------------
(* Properties *)

OpenStatus == {"active", "t1", "t2"}

Coins == {baseCoin(y) : y \in Symbols}

AllPrices == UNION {PriceFeed(y) : y \in Symbols}

\* the price map in which every symbol trades at p
allAt(p) == [y \in Symbols |-> p]

shared == [signalStatus |-> signalStatus, traderStats |-> traderStats]

\* C1: every base instrument has at most one signal whose status is active,
\* t1 or t2.
C1_AtMostOneOpen ==
    \A coin \in Coins :
        Cardinality({i \in 1..Len(signals) :
                        /\ signals[i].pair.base = coin
                        /\ statusOf(signalStatus, signals[i].id) \in OpenStatus}) <= 1

\* C2: the creation timestamps of any two signals of the same base instrument
\* differ by at least 60 minutes.
C2_CooldownApart ==
    \A i, j \in 1..Len(signals) :
        (i < j /\ signals[i].pair.base = signals[j].pair.base)
            => \/ idTimestamp(signals[i].id) - idTimestamp(signals[j].id) >= COOLDOWN_MS
               \/ idTimestamp(signals[j].id) - idTimestamp(signals[i].id) >= COOLDOWN_MS

\* a generation tick that has read the shared state for a signal it accepted
\* and has not yet written that signal
inCriticalSection(t) == t.pc = "klines" /\ t.newSignals # <<>>

\* a lifecycle step that reads or writes the shared state: the start reads
\* the signal list, the response reads it and writes status and stats
lifecycleTouches ==
    \/ CheckStart
    \/ \E c \in BagToSet(chk) : \E d \in PriceResponses(c.symbols) : CheckArrived(c, d)

\* a loop-body step of generation tick u that reads the shared state (a rule
\* matched, so stats, signal list and status map are read) or writes it (the
\* emission after the last ticker)
generationTouches(u) ==
    \/ \E k \in KlinesAnswers(u) :
          analysisOf[k].choice.strategyName # "" /\ GenKlinesArrived(u, k)
    \/ /\ signals' # signals
       /\ \/ GenKlinesFailed(u)
          \/ \E k \in KlinesAnswers(u) : GenKlinesArrived(u, k)

\* C3: between a generation tick's reads of the shared state and its writes,
\* no lifecycle tick and no other generation tick reads or writes the signal
\* list, the status map or the stats map.
C3_CriticalSection ==
    [][\A t \in BagToSet(gen) :
          inCriticalSection(t)
             => /\ ~lifecycleTouches
                /\ \A u \in BagToSet(gen) :
                      (u # t \/ CopiesIn(t, gen) > 1) => ~generationTouches(u)]_vars

rank(status) ==
    CASE status = "active" -> 0
      [] status = "t1" -> 1
      [] status = "t2" -> 2
      [] status \in {"t3", "sl"} -> 3

\* C4: in every step of a lifecycle tick no signal's status moves to a lower
\* rank in the order active < t1 < t2 < {t3, sl}, and a status t3 or sl does
\* not change.
C4_Monotone ==
    [][chk' # chk
          => \A id \in DOMAIN signalStatus :
                /\ id \in DOMAIN signalStatus'
                /\ rank(signalStatus'[id]) >= rank(signalStatus[id])
                /\ signalStatus[id] \in {"t3", "sl"}
                      => signalStatus'[id] = signalStatus[id]]_vars

\* a signal stands at t2 while the last price seen is below its first target
C4_Witness ==
    \E i \in 1..Len(signals) :
        /\ signalStatus[signals[i].id] = "t2"
        /\ prices[pairSymbol(signals[i].pair)] # 0
        /\ prices[pairSymbol(signals[i].pair)] < parseFloat(signals[i].takeProfits.t1)
        /\ prices[pairSymbol(signals[i].pair)] > parseFloat(signals[i].stopLoss)

\* C5: for every strategy in the stats map, 0 <= wins <= total.
C5_WinsAtMostTotal ==
    \A n \in DOMAIN traderStats :
        /\ traderStats[n].wins >= 0
        /\ traderStats[n].total >= 0
        /\ traderStats[n].wins <= traderStats[n].total

\* a strategy absent from the initial map has a loss and no win, and one of
\* the initial map has a win
C5_Witness ==
    /\ "Momentum Surge (1h)" \in DOMAIN traderStats
    /\ traderStats["Momentum Surge (1h)"].wins = 0
    /\ traderStats["Momentum Surge (1h)"].total >= 1
    /\ traderStats["RSI Oversold (1h)"].wins >= 1

\* C6: the lifecycle check of a signal at any price changes counters only on
\* a status change into t1 (wins + 1 and total + 1 for the signal's strategy)
\* or into sl (total + 1 only); a change into t2 or t3, or no change, leaves
\* the whole stats map as it was, and no other strategy is touched.
C6_CountersOnlyOnT1OrSl ==
    \A i \in 1..Len(signals) : \A p \in AllPrices :
        LET signal == signals[i]
            old == statusOf(signalStatus, signal.id)
            after == checkSignal(signal, allAt(p), shared)
            new == statusOf(after.signalStatus, signal.id)
            before == statsOf(traderStats, signal.traderName)
            counted == statsOf(after.traderStats, signal.traderName)
        IN /\ (new # old /\ new = "t1")
                => counted = [wins |-> before.wins + 1, total |-> before.total + 1]
           /\ (new # old /\ new = "sl")
                => counted = [wins |-> before.wins, total |-> before.total + 1]
           /\ (new = old \/ new \in {"t2", "t3"})
                => after.traderStats = traderStats
           /\ \A n \in DOMAIN after.traderStats :
                n # signal.traderName
                    => n \in DOMAIN traderStats /\ after.traderStats[n] = traderStats[n]

\* a signal went from active straight to t3 and its strategy, which is not in
\* the initial map, has no counters yet; another strategy has a win counted
C6_Witness ==
    /\ \E i \in 1..Len(signals) :
          /\ signalStatus[signals[i].id] = "t3"
          /\ traderStats[signals[i].traderName] = InitialTraderStats[signals[i].traderName]
    /\ \E n \in DOMAIN traderStats : n \notin DOMAIN InitialTraderStats

\* C7: for a signal in status active, t1 or t2, the lifecycle check at a price
\* <= stopLoss gives sl, also when that price is >= target3.
C7_StopDominates ==
    \A i \in 1..Len(signals) : \A p \in AllPrices :
        LET signal == signals[i]
            old == statusOf(signalStatus, signal.id)
            after == checkSignal(signal, allAt(p), shared)
        IN (old \in OpenStatus /\ p <= parseFloat(signal.stopLoss))
              => statusOf(after.signalStatus, signal.id) = "sl"

\* a signal was stopped at a price that is both <= stopLoss and >= target3
C7_Witness ==
    \E i \in 1..Len(signals) :
        LET p == prices[pairSymbol(signals[i].pair)]
        IN /\ p # 0
           /\ p <= parseFloat(signals[i].stopLoss)
           /\ p >= parseFloat(signals[i].takeProfits.t3)
           /\ signalStatus[signals[i].id] = "sl"

PriceMaps == [Symbols -> AllPrices \cup {0}]

\* C8: a second lifecycle check at the same prices changes neither a status
\* nor a counter.
C8_Idempotent ==
    \A prs \in PriceMaps :
        LET once == checkAll(signals, 1, prs, shared)
        IN checkAll(signals, 1, prs, once) = once

\* a signal stands at t1 with a win counted and the last price seen is still
\* at or above its first target
C8_Witness ==
    \E i \in 1..Len(signals) :
        /\ signalStatus[signals[i].id] = "t1"
        /\ prices[pairSymbol(signals[i].pair)] >= parseFloat(signals[i].takeProfits.t1)
        /\ traderStats[signals[i].traderName].wins >= 1

\* the signal of the scenario: entry 100, stop 98.5, targets 101.2, 102, 103.5
isScenarioSignal(signal) ==
    /\ signal.action = "buy"
    /\ parseFloat(signal.entry) = 100 * MICRO
    /\ parseFloat(signal.stopLoss) = 98500000
    /\ parseFloat(signal.takeProfits.t1) = 101200000
    /\ parseFloat(signal.takeProfits.t2) = 102 * MICRO
    /\ parseFloat(signal.takeProfits.t3) = 103500000

\* the lifecycle checks of signal at 100, 101.5 and 102.5, in that order
scenarioRun(signal) ==
    checkSignal(signal, allAt(102500000),
        checkSignal(signal, allAt(101500000),
            checkSignal(signal, allAt(100 * MICRO), shared)))

\* C9 as stated: from active, the prices 100, 101.5, 102.5 end at t2 with the
\* strategy's counters as they were at the start.
C9_ScenarioNoIncrement ==
    \A i \in 1..Len(signals) :
        (isScenarioSignal(signals[i]) /\ statusOf(signalStatus, signals[i].id) = "active")
            => LET after == scenarioRun(signals[i])
               IN /\ statusOf(after.signalStatus, signals[i].id) = "t2"
                  /\ statsOf(after.traderStats, signals[i].traderName)
                        = statsOf(traderStats, signals[i].traderName)

\* C9 amended: from active, the prices 100, 101.5, 102.5 end at t2, and the
\* strategy's wins and total are each one more than at the start (the first
\* target is hit at 101.5); every other strategy is as it was.
C9_ScenarioOneWin ==
    \A i \in 1..Len(signals) :
        (isScenarioSignal(signals[i]) /\ statusOf(signalStatus, signals[i].id) = "active")
            => LET after == scenarioRun(signals[i])
                   before == statsOf(traderStats, signals[i].traderName)
               IN /\ statusOf(after.signalStatus, signals[i].id) = "t2"
                  /\ statsOf(after.traderStats, signals[i].traderName)
                        = [wins |-> before.wins + 1, total |-> before.total + 1]
                  /\ \A n \in DOMAIN traderStats :
                        n # signals[i].traderName
                            => after.traderStats[n] = traderStats[n]

\* the scenario signal stands at t2 at price 102.5 and its strategy has a win
C9_Witness ==
    \E i \in 1..Len(signals) :
        /\ isScenarioSignal(signals[i])
        /\ signalStatus[signals[i].id] = "t2"
        /\ prices[pairSymbol(signals[i].pair)] = 102500000
        /\ traderStats[signals[i].traderName].wins >= 1

\* the rules in priority order, as conditions on the readings in arg
ruleHolds ==
    << ratLess(arg.rsi, 35),
       /\ aboveTwice(arg.currentVolume, arg.avgVolume)
       /\ ratLess(arg.rsi, 65)
       /\ ratGreater(arg.priceChange, 2),
       /\ ratGreater(arg.priceChange, 4)
       /\ aboveTwice(arg.currentVolume, arg.avgVolume) >>

ruleName == <<"RSI Oversold (1h)", "Volume Breakout (1h)", "Momentum Surge (1h)">>

\* C10: the strategy chosen is the first rule, in the order RSI Oversold,
\* Volume Breakout, Momentum Surge, whose condition holds; none is chosen when
\* none holds; the direction is always buy.
C10_FirstMatchWins ==
    res # <<>>
        => /\ res[1].action = "buy"
           /\ LET hits == {k \in 1..3 : ruleHolds[k]}
              IN IF hits = {} THEN res[1].strategyName = ""
                 ELSE \E k \in hits :
                        /\ \A h \in hits : k <= h
                        /\ res[1].strategyName = ruleName[k]

\* the momentum rule was chosen although its condition is the third tried
C10_Witness ==
    /\ res # <<>>
    /\ res[1].strategyName = "Momentum Surge (1h)"
    /\ ruleHolds[3] /\ ~ruleHolds[1] /\ ~ruleHolds[2]


----------------------------------------------------------------------------
(* Properties of the data-source answers, of emission and of the schedule *)

\* C11: a signal in status active, t1 or t2 whose symbol is missing from the
\* price response of a lifecycle tick is skipped by that tick: the check of
\* the signal leaves the status map and the stats map as they were, whatever
\* price an earlier tick recorded for the symbol.
C11_SkippedWithoutPrice ==
    \A i \in 1..Len(signals) : \A d \in PriceResponses(requestSymbols(signals)) :
        (/\ statusOf(signalStatus, signals[i].id) \in OpenStatus
         /\ pairSymbol(signals[i].pair) \notin DOMAIN d)
            => checkSignal(signals[i], storePrices(prices, d), shared) = shared

\* the number of records a step prepends to the signal list
added == Len(signals') - Len(signals)

\* C12: the success rate stored in a signal that a step adds to the signal
\* list is the rate of its strategy's counters as they are in that step.
C12_RateAtEmission ==
    [][\A k \in 1..added :
          signals'[k].successRate
              = successRateOf(statsOf(traderStats', signals'[k].traderName))]_vars

\* C13: no two records of the signal list have the same id.
C13_UniqueIds ==
    \A i, j \in 1..Len(signals) : i # j => signals[i].id # signals[j].id

\* C14: the creation timestamps in the ids of the signal list do not increase
\* from the head to the tail.
C14_NewestFirst ==
    \A i, j \in 1..Len(signals) :
        i < j => idTimestamp(signals[i].id) >= idTimestamp(signals[j].id)

\* C15: the state the engine starts from without a usable state store has an
\* empty signal list, an empty status map and wins = 0 and total = 0 for
\* every strategy.
C15_EmptyDefaults ==
    Init => /\ signals = <<>>
            /\ signalStatus = <<>>
            /\ \A n \in DOMAIN traderStats :
                  traderStats[n] = [wins |-> 0, total |-> 0]

\* the calls of both activities that are in flight
calls == BagCardinality(gen) + BagCardinality(chk)

\* C16: whatever calls of either activity are in flight, and whatever failed
\* before, the timers can start a generation tick and (with a non-empty
\* signal list) a lifecycle tick, a lifecycle call in flight can take its
\* response, and a generation call in flight can take its next answer.
C16_Independent ==
    /\ (isLive /\ calls < MaxCalls) => ENABLED GenStart
    /\ (isLive /\ Len(signals) # 0 /\ calls < MaxCalls) => ENABLED CheckStart
    /\ \A c \in BagToSet(chk) :
          ENABLED (\E d \in PriceResponses(c.symbols) : CheckArrived(c, d))
    /\ \A t \in BagToSet(gen) :
          ENABLED (\/ \E l \in CandidateLists : GenTickerArrived(t, l)
                   \/ GenKlinesFailed(t)
                   \/ \E k \in KlinesAnswers(t) : GenKlinesArrived(t, k))

\* a generation call still holds an accepted signal while a signal of the
\* same instrument, created at the same time and so emitted after that
\* acceptance, has already been moved on by a lifecycle tick
C16_Witness ==
    \E t \in BagToSet(gen) : \E k \in 1..Len(t.newSignals) :
        \E i \in 1..Len(signals) :
            /\ signals[i].pair.base = t.newSignals[k].pair.base
            /\ idTimestamp(signals[i].id) = idTimestamp(t.newSignals[k].id)
            /\ statusOf(signalStatus, signals[i].id) # "active"

\* C18: a generation call that leaves the await of one ticker's klines, by a
\* failure or by an answer, keeps what it had accepted: before the last ticker
\* it goes on to the next ticker of the same list with newSignals kept, and
\* after the last ticker every accepted signal is in the signal list with
\* status active.
C18_FailureIsolated ==
    [][\A t \in BagToSet(gen) :
          (t.pc = "klines" /\ CopiesIn(t, gen') < CopiesIn(t, gen))
             => IF t.i < Len(t.usdtPairs)
                THEN \E u \in BagToSet(gen') :
                        /\ CopiesIn(u, gen') > CopiesIn(u, gen)
                        /\ u.pc = "klines"
                        /\ u.usdtPairs = t.usdtPairs
                        /\ u.i = t.i + 1
                        /\ SubSeq(u.newSignals, 1, Len(t.newSignals)) = t.newSignals
                ELSE /\ added >= Len(t.newSignals)
                     /\ \A k \in 1..Len(t.newSignals) :
                           /\ \E j \in 1..added : signals'[j] = t.newSignals[k]
                           /\ signalStatus'[t.newSignals[k].id] = "active"]_vars

\* with an empty signal list every answer for ETHUSDT is accepted, so its
\* klines request has failed in this call, which now evaluates BTCUSDT
C18_Witness ==
    \E t \in BagToSet(gen) :
        /\ t.pc = "klines"
        /\ t.usdtPairs = <<"ETHUSDT", "BTCUSDT">>
        /\ t.i = 2
        /\ t.newSignals = <<>>
        /\ signals = <<>>

\* C20: a step of a generation call leaves the stats map and the status of
\* every signal already known unchanged and gives every record it adds the
\* status active; a step of a lifecycle call leaves the signal list
\* unchanged; every step keeps the records of the signal list, in order, as
\* the tail of the new list.
C20_Frame ==
    [][/\ gen' # gen
            => /\ traderStats' = traderStats
               /\ \A id \in DOMAIN signalStatus :
                     /\ id \in DOMAIN signalStatus'
                     /\ signalStatus'[id] = signalStatus[id]
               /\ \A k \in 1..added : signalStatus'[signals'[k].id] = "active"
       /\ chk' # chk => signals' = signals
       /\ added >= 0
       /\ SubSeq(signals', added + 1, Len(signals')) = signals]_vars


\* a running generation call holds in newSignals a signal of coin created at ts
heldBack(coin, ts) ==
    \E t \in BagToSet(gen) : \E k \in 1..Len(t.newSignals) :
        /\ t.newSignals[k].pair.base = coin
        /\ idTimestamp(t.newSignals[k].id) = ts

\* the signal list has a signal of coin created at ts
emitted(coin, ts) ==
    \E i \in 1..Len(signals) :
        /\ signals[i].pair.base = coin
        /\ idTimestamp(signals[i].id) = ts

\* the values the clock takes
Times == {k * ClockStep : k \in 0..MaxClock}

\* C17: every generation call finishes, also when a bar fetch is not answered:
\* while the timers keep starting ticks, a signal that a call has accepted is
\* eventually in the signal list.
C17_TicksFinish ==
    \A coin \in Coins : \A ts \in Times :
        []<><<GenStart \/ CheckStart>>_vars
            => (heldBack(coin, ts) ~> emitted(coin, ts))

\* C19: the end of a notification, whatever its outcome, changes neither the
\* signal list, the status map, the stats map and the price map nor any call
\* in flight; a step that starts notifications is the step in which the tick
\* finishes its writes and returns; without credentials nothing is awaited.
C19_NotifyDecoupled ==
    [][/\ sending' < sending
            => UNCHANGED <<signals, prices, signalStatus, traderStats, gen, chk>>
       /\ sending' > sending
            => /\ calls' < calls
               /\ signals' # signals \/ signalStatus' # signalStatus
       /\ ~credentials => sending' = 0]_vars

\* two signals have been emitted and are active, both notifications are
\* still awaited and no call is in flight
C19_Witness ==
    /\ credentials
    /\ sending = 2
    /\ Len(signals) = 2
    /\ \A i \in 1..Len(signals) : signalStatus[signals[i].id] = "active"
    /\ calls = 0


\* what saveState() would write now
memory ==
    [signals |-> signals, signalStatus |-> signalStatus,
     traderStats |-> traderStats]

\* C21: a step in which a generation call adds a signal or a lifecycle call
\* changes a status, taken while the state file can be written, ends with the
\* file holding exactly the signal list, the status map and the stats map of
\* the memory; so a status is never on file without its counter update.
C21_SavedAfterMutation ==
    [][(writable /\ (signals' # signals \/ signalStatus' # signalStatus
                        \/ traderStats' # traderStats))
          => stateFile' = <<memory'>>]_vars

\* the file holds the memory, with a stop and its counter update and a
\* signal at its second target
C21_Witness ==
    /\ writable
    /\ stateFile = <<memory>>
    /\ \E i \in 1..Len(signals) :
          /\ signalStatus[signals[i].id] = "sl"
          /\ traderStats[signals[i].traderName].total >= 1
    /\ \E i \in 1..Len(signals) : signalStatus[signals[i].id] = "t2"

----------------------------------------------------------------------------
(* C22 *)

\* number of comparison units in 1.0 of the quote currency when a close is
\* counted in ticks and scaled by thousandths
unitsPerOne(tickSize) == (MICRO * 1000) \div tickSize

\* a printed price in those units
inUnits(str, tickSize) ==
    IF tickSize <= 1000 THEN str.value * (1000 \div tickSize)
    ELSE str.value \div (tickSize \div 1000)

\* str is x (in comparison units) rounded to 6, 4 or 2 decimal places
\* according to x's own magnitude
roundedByMagnitude(str, x, tickSize) ==
    LET one == unitsPerOne(tickSize)
        d == IF x < one \div 100 THEN 6 ELSE IF x < one THEN 4 ELSE 2
        step == one \div (CASE d = 6 -> 1000000 [] d = 4 -> 10000 [] d = 2 -> 100)
        v == inUnits(str, tickSize)
    IN /\ str.decimals = d
       /\ tickSize > 1000 => str.value % (tickSize \div 1000) = 0
       /\ v % step = 0
       /\ 2 * (x - v) < step
       /\ 2 * (v - x) <= step

----------------------------------------------------------------------------
(* C23 *)

noNegativeDelta(closes) ==
    \A i \in 1..(Len(closes) - 1) : closes[i + 1] >= closes[i]

RECURSIVE powerOf(_, _)
powerOf(b, n) == IF n = 0 THEN 1 ELSE b * powerOf(b, n - 1)

\* The Wilder average of the gains (pos = TRUE) or losses at close k, k >
\* RSI_PERIOD, as a numerator over RSI_PERIOD ^ (k - RSI_PERIOD): the plain
\* sum of the first RSI_PERIOD deltas, then (previous * 13 + current) / 14.
RECURSIVE wilder(_, _, _)
wilder(closes, k, pos) ==
    LET change == closes[k] - closes[k - 1]
        part == IF pos THEN (IF change > 0 THEN change ELSE 0)
                ELSE (IF change < 0 THEN 0 - change ELSE 0)
    IN IF k = 1 THEN 0
       ELSE IF k <= RSI_PERIOD + 1 THEN part + wilder(closes, k - 1, pos)
       ELSE (RSI_PERIOD - 1) * wilder(closes, k - 1, pos)
                + part * powerOf(RSI_PERIOD, k - RSI_PERIOD - 1)

RECURSIVE gcd(_, _)
gcd(a, b) == IF b = 0 THEN a ELSE gcd(b, a % b)

lowestTerms(r) ==
    LET g == gcd(r.num, r.den) IN [num |-> r.num \div g, den |-> r.den \div g]

\* C23: calculateRSI with period 14 returns 50 for every series of at most
\* 14 closes, 100 for every longer series without a negative delta (rising
\* or flat), and otherwise 100 - 100 / (1 + avgGain / avgLoss) over the
\* Wilder-smoothed averages, a value in [0, 100).
C23_RsiCases ==
    res # <<>> /\ arg \in RsiInputs =>
        LET rsi == res[1]
            g == wilder(arg, Len(arg), TRUE)
            l == wilder(arg, Len(arg), FALSE)
        IN IF Len(arg) <= 14 THEN rsi.num = 50 * rsi.den
           ELSE IF noNegativeDelta(arg) THEN rsi.num = 100 * rsi.den
           ELSE /\ rsi.den > 0
                /\ 0 <= rsi.num /\ rsi.num < 100 * rsi.den
                \* 100 - 100 / (1 + g / l) = 100 * g / (g + l)
                /\ lowestTerms(rsi) = lowestTerms([num |-> 100 * g, den |-> g + l])

\* a series longer than the period plus one, with gains and losses, read
\* strictly between 0 and 100
C23_Witness ==
    /\ res # <<>> /\ arg \in RsiInputs
    /\ Len(arg) > RSI_PERIOD + 1
    /\ ~noNegativeDelta(arg)
    /\ 0 < res[1].num /\ res[1].num < 100 * res[1].den

----------------------------------------------------------------------------
(* C24 *)

\* the counter of one strategy as it enters a sum: 0 when the map lacks it
counted(stats, n, field) == IF n \in DOMAIN stats THEN stats[n][field] ELSE 0

sumOver(stats, field) ==
    counted(stats, "RSI Oversold (1h)", field)
        + counted(stats, "Volume Breakout (1h)", field)
        + counted(stats, "Momentum Surge (1h)", field)

\* C24: the global wins and total are the sums of the wins and totals of
\* all strategies in the stats map, the global success rate is
\* round(sumWins / sumTotal * 100) when sumTotal > 0 and 0 otherwise, and
\* with wins <= total for every strategy the rate is within 0..100.
C24_GlobalStats ==
    res # <<>> /\ arg \in StatsInputs =>
        LET w == sumOver(arg, "wins")
            t == sumOver(arg, "total")
            rate == res[1].globalSuccessRate
        IN /\ res[1].globalStats = [wins |-> w, total |-> t]
           /\ t = 0 => rate = 0
           /\ t > 0 => /\ 2 * (100 * w - rate * t) <= t
                        /\ 2 * (rate * t - 100 * w) <= t
           /\ (\A n \in DOMAIN arg : arg[n].wins <= arg[n].total)
                => rate \in 0..100

\* two strategies with two wins in three outcomes between them: 67
C24_Witness ==
    /\ res # <<>> /\ arg \in StatsInputs
    /\ Cardinality(DOMAIN arg) = 2
    /\ res[1].globalStats = [wins |-> 2, total |-> 3]
    /\ res[1].globalSuccessRate = 67

----------------------------------------------------------------------------
(* C28 *)

\* a waiting checkPrices call can take the response data and change a
\* status, a counter or the number of notifications
changesOn(data) ==
    \E u \in BagToSet(chk) :
        /\ data \in PriceResponses(u.symbols)
        /\ ENABLED (/\ CheckArrived(u, data)
                    /\ <<signalStatus', traderStats', sending'>>
                            # <<signalStatus, traderStats, sending>>)

\* C28: when two checkPrices calls wait for their responses at once and the
\* first takes a response, the other call taking a response with the same
\* prices changes no status and no counter: the changes are applied once.
C28_OverlapAsOne ==
    [][\A t \in BagToSet(chk) : \A d \in PriceResponses(t.symbols) :
          (BagCardinality(chk) >= 2 /\ CheckArrived(t, d))
              => ~(changesOn(d))']_vars

\* one of two overlapping calls has taken its response: the signal stands at
\* t1, counted once, and the other call still waits for the same symbol
C28_Witness ==
    \E i \in 1..Len(signals) :
        /\ signalStatus[signals[i].id] = "t1"
        /\ prices[pairSymbol(signals[i].pair)] >= parseFloat(signals[i].takeProfits.t1)
        /\ traderStats[signals[i].traderName] = [wins |-> 1, total |-> 1]
        /\ \E u \in BagToSet(chk) : pairSymbol(signals[i].pair) \in u.symbols

----------------------------------------------------------------------------
(* C27 *)

\* the readings of the momentum rule: priceChange > 4.0 and a current
\* volume above twice the average
surgeReadings ==
    /\ arg.priceChange.num > 4 * arg.priceChange.den
    /\ arg.currentVolume * arg.avgVolume.den > 2 * arg.avgVolume.num

\* C27: a Momentum Surge signal is produced only when RSI >= 65; when
\* priceChange > 4.0 and currentVolume > 2 * avgVolume hold, the strategy is
\* RSI Oversold with RSI < 35 and Volume Breakout with 35 <= RSI < 65.
C27_SurgeOnlyOverbought ==
    res # <<>> /\ arg \in SelectInputs =>
        /\ res[1].strategyName = "Momentum Surge (1h)"
              => arg.rsi.num >= 65 * arg.rsi.den
        /\ (surgeReadings /\ arg.rsi.num < 35 * arg.rsi.den)
              => res[1].strategyName = "RSI Oversold (1h)"
        /\ (surgeReadings /\ arg.rsi.num >= 35 * arg.rsi.den
                          /\ arg.rsi.num < 65 * arg.rsi.den)
              => res[1].strategyName = "Volume Breakout (1h)"

\* the momentum readings with an RSI of 64.99: the breakout rule answered
C27_Witness ==
    /\ res # <<>> /\ arg \in SelectInputs
    /\ surgeReadings
    /\ arg.rsi = [num |-> 6499, den |-> 100]
    /\ res[1].strategyName = "Volume Breakout (1h)"

----------------------------------------------------------------------------
(* C25 *)

\* the signals of strategy n that have left the active status
leftActive(n) ==
    {i \in 1..Len(signals) :
        /\ signals[i].traderName = n
        /\ statusOf(signalStatus, signals[i].id) # "active"}

\* C25: every signal is counted at most once in its strategy's statistics:
\* a strategy's total has grown by no more than the number of its signals
\* that left the active status.
C25_CountedOnce ==
    \A n \in StrategyNames :
        statsOf(traderStats, n).total - statsOf(InitialTraderStats, n).total
            <= Cardinality(leftActive(n))

----------------------------------------------------------------------------
(* C26 *)

\* C26: the stored levels of every emitted signal are strictly ordered,
\* stopLoss < entry < target1 < target2 < target3, so a lifecycle check at a
\* price equal to the entry leaves the signal active.
C26_LevelsOrdered ==
    \A i \in 1..Len(signals) :
        LET signal == signals[i]
            entry == parseFloat(signal.entry)
        IN /\ entry > 0
           /\ parseFloat(signal.stopLoss) < entry
           /\ entry < parseFloat(signal.takeProfits.t1)
           /\ parseFloat(signal.takeProfits.t1) < parseFloat(signal.takeProfits.t2)
           /\ parseFloat(signal.takeProfits.t2) < parseFloat(signal.takeProfits.t3)
           /\ nextStatus(signal, "active", entry) = "active"

====
